---- MODULE Spec2Model ----
(***************************************************************************)
(* Row-count collection job (src/src/lambdas/glue_lambda.py): catalog      *)
(* enumeration, batched query submission, poll-and-fetch, aggregation and  *)
(* the write to the output table.                                          *)
(*                                                                         *)
(* Names are sequences of one-character strings, so that endswith and      *)
(* startswith are computed on the characters.  A counting statement is the *)
(* record of the database and table it was rendered for; a UNION ALL query *)
(* is the sequence of its statements; a result set (data frame) is a       *)
(* sequence of rows.                                                       *)
(***************************************************************************)
EXTENDS Integers, Sequences, FiniteSets, TLC

\* ------------------------------------------------------------------ bounds
MaxDbs == 2            \* databases (not counting the staging one) in a catalog
MaxPolls == 1          \* non-terminal observations of one job that are counted
MaxRuns == 2           \* invocations in SpecRuns
PageSize == 10         \* entries per catalog page
MaxBatch == 3          \* batch sizes tried by SpecBatch
MaxTablesPerDb == 3    \* tables per database in the inputs of SpecBatch
MaxPages == 4          \* pages of the workgroup's listing in SpecMonitor
TableCounts == {0, 20, 25}   \* tables per database in the catalogs of Spec
RunCounts == {<<25, 20>>, <<0>>}    \* catalogs of SpecRuns
PageCounts == {0, 1, 50}     \* ids on one page of the workgroup's listing

\* ------------------------------------------------------- program constants
HANDLER_BATCH_SIZE == 20
\* query_monitoring_lambda.py: BATCH_SIZE, and the 100 of the listing loop
BATCH_SIZE == 50
ID_LIMIT == 100

VARIABLES
    glue_catalog,        \* the external catalog: tables per database, in listing order
    run,                 \* number of the current invocation
    pc,                  \* position of the handler
    databases,           \* handler: databases
    db_idx,              \* handler: position of `for db_name in databases`
    all_tables,          \* handler: all_tables, an insertion-ordered dict
    batch_size,          \* get_row_count: batch_size
    sql_queries,         \* get_row_count: sql_queries
    batch_num,           \* get_row_count: batch_num
    query_execution_ids, \* get_row_count: query_execution_ids, then the handler's
    idx,                 \* handler: position of `for idx, query_execution_id in ...`
    state,               \* get_csv_result: state
    polls,               \* non-terminal observations of the current job, up to MaxPolls
    all_results,         \* handler: all_results
    result,              \* what the handler returned
    athena_calls,        \* the engine's record of start_query_execution calls
    job_log,             \* one record per finished get_csv_result call: the terminal
                         \* state it saw ("NONE" when a status request raised),
                         \* whether it gave a result set, whether it caught an
                         \* exception, and the length of all_results at the call
    sink_writes,         \* to_parquet calls of this invocation
    output_table,        \* rows of data_monitoring_table
    written_before,      \* rows written by completed writes of earlier invocations
    list_log,            \* one entry per get_tables call: whether the listing raised
    peer,                \* an overlapping invocation: its position and the frame
                         \* it passed to to_parquet
    page_log,            \* one entry per paginator run of the catalog: the call,
                         \* the pages of the listing, the page whose request raised
    \* query monitoring job (src/src/lambdas/query_monitoring_lambda.py)
    qm_pc,               \* position of the monitoring handler
    workgroup,           \* the engine's listing of the workgroup: ids per page
    query_ids,           \* get_all_query_ids: query_ids, then the handler's ids
    next_token,          \* get_all_query_ids: next_token (0 is None, else the page it names)
    range_i,             \* handler: i of `for i in range(0, len(ids), BATCH_SIZE)`
    all_query_details,   \* handler: all_query_details
    list_requests,       \* one entry per list_query_executions request: the token
                         \* passed and the number of ids held when it was made
    detail_calls         \* the batches passed to get_query_details, in call order

glue_vars == <<glue_catalog, run, pc, databases, db_idx, all_tables, batch_size,
               sql_queries, batch_num, query_execution_ids, idx, state, polls,
               all_results, result, athena_calls, job_log, sink_writes, output_table,
               written_before, list_log, peer, page_log>>

monitor_vars == <<qm_pc, workgroup, query_ids, next_token, range_i,
                  all_query_details, list_requests, detail_calls>>

vars == <<glue_vars, monitor_vars>>

\* ------------------------------------------------------------------ helpers
Min(a, b) == IF a < b THEN a ELSE b

Range(s) == {s[i] : i \in DOMAIN s}

RECURSIVE Concat(_)
\* pd.concat(frames, ignore_index=True) / flattening of pages
Concat(frames) ==
    IF frames = <<>> THEN <<>> ELSE Head(frames) \o Concat(Tail(frames))

\* str.endswith
endswith(s, suffix) ==
    /\ Len(s) >= Len(suffix)
    /\ SubSeq(s, Len(s) - Len(suffix) + 1, Len(s)) = suffix

\* str.startswith
startswith(s, prefix) ==
    /\ Len(s) >= Len(prefix)
    /\ SubSeq(s, 1, Len(prefix)) = prefix

STAGING_SUFFIX == <<"_", "s", "t", "a", "g", "i", "n", "g">>
UNDERSCORE == <<"_">>

\* ------------------------------------------------------ the external catalog
Digits == <<"0", "1", "2", "3", "4", "5", "6", "7", "8", "9">>
DbName(k) ==
    IF k < 10 THEN <<"d", Digits[k + 1]>>
    ELSE <<"d", Digits[(k \div 10) + 1], Digits[(k % 10) + 1]>>
StagingDb == <<"d", "1">> \o STAGING_SUFFIX
TableName(i) == <<"t", Digits[(i \div 10) + 1], Digits[(i % 10) + 1]>>
HiddenTable == <<"_", "t", "m", "p">>

\* The databases the catalog lists: d1, d1_staging, d2, ...
CatalogDatabases(counts) ==
    IF counts = <<>> THEN <<>>
    ELSE <<DbName(1), StagingDb>> \o [k \in 1..(Len(counts) - 1) |-> DbName(k + 1)]

\* The tables the catalog lists for a database: t01, _tmp, t02, ...
CatalogTables(counts, db_name) ==
    LET ks == {k \in 1..Len(counts) : DbName(k) = db_name}
        n == IF ks = {} THEN 1 ELSE counts[CHOOSE k \in ks : TRUE]
    IN IF n = 0 THEN <<>>
       ELSE <<TableName(1), HiddenTable>> \o [i \in 1..(n - 1) |-> TableName(i + 1)]

\* paginator.paginate(): the listing cut into pages, at least one page
Paginate(listing) ==
    LET n == IF listing = <<>> THEN 1 ELSE (Len(listing) + PageSize - 1) \div PageSize
    IN [p \in 1..n |-> SubSeq(listing, (p - 1) * PageSize + 1,
                              Min(p * PageSize, Len(listing)))]

\* COUNT(*) of a table: data of the table, fixed per table
CountRows(db_name, table_name) == Len(db_name) + Len(table_name)

\* ------------------------------------------------------- Catalog Enumerator
\* get_databases returning what it had read when a page request raised
get_databases_partial(pages, fail_at) ==
    SelectSeq(Concat(IF fail_at \in 1..Len(pages) THEN SubSeq(pages, 1, fail_at - 1)
                     ELSE pages),
              LAMBDA name : ~endswith(name, STAGING_SUFFIX))

\* get_databases; fail_at is the page whose request raises (0: none)
get_databases(pages, fail_at) ==
    IF fail_at \in 1..Len(pages) THEN <<>>
    ELSE SelectSeq(Concat(pages), LAMBDA name : ~endswith(name, STAGING_SUFFIX))

\* get_tables without the test of the name
get_tables_unfiltered(pages, fail_at) ==
    IF fail_at \in 1..Len(pages) THEN <<>> ELSE Concat(pages)

\* get_tables; fail_at is the page whose request raises (0: none)
get_tables(pages, fail_at) ==
    IF fail_at \in 1..Len(pages) THEN <<>>
    ELSE SelectSeq(Concat(pages), LAMBDA name : ~startswith(name, UNDERSCORE))

\* all_tables[db_name] = tables on an insertion-ordered dict
DictSet(dict, key, value) ==
    IF \E i \in DOMAIN dict : dict[i].db_name = key
    THEN [i \in DOMAIN dict |->
            IF dict[i].db_name = key THEN [db_name |-> key, tables |-> value]
            ELSE dict[i]]
    ELSE Append(dict, [db_name |-> key, tables |-> value])

\* ------------------------------------------------------------ Query Batcher
\* the counting statement rendered for one table
Statement(db_name, table_name) ==
    [database_name |-> db_name, table_name |-> table_name]

RECURSIVE RenderQueries(_)
\* the two nested loops that fill sql_queries
RenderQueries(dict) ==
    IF dict = <<>> THEN <<>>
    ELSE [i \in DOMAIN Head(dict).tables |->
            Statement(Head(dict).db_name, Head(dict).tables[i])]
         \o RenderQueries(Tail(dict))

\* total_batches without the rounding up
total_batches_floor(n, size) == n \div size

\* total_batches
total_batches(n, size) == (n + size - 1) \div size

\* start_idx one statement late
start_idx_skip(num, size) == num * size + 1

\* start_idx, end_idx and the slice of one batch (batch_num counts from 0)
start_idx(num, size) == num * size
end_idx(num, size, n) == Min((num + 1) * size, n)
batch_queries(queries, num, size) ==
    SubSeq(queries, start_idx(num, size) + 1, end_idx(num, size, Len(queries)))

\* ----------------------------------------------------- Async Query Executor
\* record_id that appends the id twice
record_id_twice(ids, accepted, id) ==
    IF accepted THEN ids \o <<id, id>> ELSE ids

\* record_id that puts the id at the front of the list
record_id_front(ids, accepted, id) ==
    IF accepted THEN <<id>> \o ids ELSE ids

\* record_id that appends an id for a call that raised
record_id_always(ids, accepted, id) == Append(ids, id)

\* query_execution_ids after one start_query_execution call: the id is
\* appended when the call returned, nothing is appended when it raised
record_id(ids, accepted, id) ==
    IF accepted THEN Append(ids, id) ELSE ids

\* after_submit with a failed submission ending the loop
after_submit_abort(accepted, num, total) ==
    IF ~accepted \/ num + 1 >= total THEN "ids" ELSE "submit"

\* where get_row_count goes after the round for batch num of `range(total)`:
\* the next round whether or not the submission raised (`continue`), or the return
after_submit(accepted, num, total) ==
    IF num + 1 >= total THEN "ids" ELSE "submit"

\* ---------------------------------------------------- engine and output sink
\* the result set of a finished query: one row per counting statement
read_csv(query) ==
    [i \in DOMAIN query |->
        [database_name |-> query[i].database_name,
         table_name |-> query[i].table_name,
         row_count |-> CountRows(query[i].database_name, query[i].table_name)]]

\* csv_result without the test of the state
csv_result_any_state(final_state, query, read_ok) ==
    IF read_ok
    THEN [has_df |-> TRUE, df |-> read_csv(query)]
    ELSE [has_df |-> FALSE, df |-> <<>>]

\* what get_csv_result returns once the loop has ended in `state`: the result
\* set when the state is SUCCEEDED and the read did not raise, else None
csv_result(final_state, query, read_ok) ==
    IF final_state = "SUCCEEDED" /\ read_ok
    THEN [has_df |-> TRUE, df |-> read_csv(query)]
    ELSE [has_df |-> FALSE, df |-> <<>>]

\* What one status request can give: a state of the job, or an exception
NonTerminal == {"QUEUED", "RUNNING"}
Terminal == {"SUCCEEDED", "FAILED", "CANCELLED"}
PollOutcomes == NonTerminal \cup Terminal \cup {"RAISE"}

\* The engine moves a job from QUEUED to RUNNING to one terminal state and
\* leaves it there: the states a request can report after `last` was reported
Observable(last) ==
    CASE last \in {"NONE", "QUEUED"} -> NonTerminal \cup Terminal
      [] last = "RUNNING" -> {"RUNNING"} \cup Terminal
      [] OTHER -> {last}

\* the test of the loop taking RUNNING for a terminal state
is_terminal_running(st) == st \in {"RUNNING", "SUCCEEDED", "FAILED", "CANCELLED"}

\* the test of the loop without CANCELLED
is_terminal_no_cancelled(st) == st \in {"SUCCEEDED", "FAILED"}

\* `if state in ['SUCCEEDED', 'FAILED', 'CANCELLED']: break`
is_terminal(st) == st \in {"SUCCEEDED", "FAILED", "CANCELLED"}

\* How a to_parquet call can end: it returns, or it raises before the old
\* files are deleted, after they are deleted, or after the new ones are written
WriteOutcomes == {"ok", "raise_before_delete", "raise_after_delete", "raise_after_write"}

\* wr.s3.to_parquet(df, dataset=True, mode='overwrite'): the rows of the table after it
to_parquet(table, df, outcome) ==
    CASE outcome = "raise_before_delete" -> table
      [] outcome = "raise_after_delete" -> <<>>
      [] OTHER -> df

\* pd.concat that takes the frames last to first
pd_concat_reversed(frames) ==
    Concat([i \in DOMAIN frames |-> frames[Len(frames) + 1 - i]])

\* pd.concat that keeps the last frame only
pd_concat_last(frames) == frames[Len(frames)]

\* pd.concat(all_results, ignore_index=True)
pd_concat(frames) == Concat(frames)

\* the test of all_results left out
has_results_always(frames) == TRUE

\* `if all_results`
has_results(frames) == frames # <<>>

\* the test of the ids left out
no_ids_never(ids) == FALSE

\* `if not query_execution_ids`
no_ids(ids) == ids = <<>>

\* the handler's return values, and no value yet
NoResult == [statusCode |-> 0, body |-> "none"]
NoTables == [statusCode |-> 400, body |-> "No tables found to query."]
Listed == [statusCode |-> 200, body |-> "Successfully listed databases and tables."]
NoCsv == [statusCode |-> 500, body |-> "Failed to retrieve CSV results from Athena batches."]
ErrorOccurred == [statusCode |-> 500, body |-> "Error occurred"]

\* write_result with the exception of to_parquet leaving the handler
write_result_uncaught(outcome) ==
    IF outcome = "ok" THEN Listed ELSE NoResult

\* write_result with the exception swallowed
write_result_ok(outcome) == Listed

\* what the handler returns after the to_parquet call: 200 when it returned,
\* the 500 of `except Exception` when it raised
write_result(outcome) ==
    IF outcome = "ok" THEN Listed ELSE ErrorOccurred

\* ------------------------------------------------------------------- states
\* the monitoring job is not running
MonitorIdle ==
    /\ qm_pc = "idle"
    /\ workgroup = <<>>
    /\ query_ids = <<>>
    /\ next_token = 0
    /\ range_i = 0
    /\ all_query_details = <<>>
    /\ list_requests = <<>>
    /\ detail_calls = <<>>

\* no overlapping invocation
NoPeer == [pc |-> "none", df |-> <<>>]

Catalogs ==
    UNION {[1..n -> TableCounts] : n \in 0..MaxDbs}

Fresh ==
    /\ pc = "start"
    /\ databases = <<>>
    /\ db_idx = 0
    /\ all_tables = <<>>
    /\ batch_size = HANDLER_BATCH_SIZE
    /\ sql_queries = <<>>
    /\ batch_num = 0
    /\ query_execution_ids = <<>>
    /\ idx = 0
    /\ state = "NONE"
    /\ polls = 0
    /\ all_results = <<>>
    /\ result = NoResult
    /\ athena_calls = <<>>
    /\ job_log = <<>>
    /\ sink_writes = <<>>
    /\ list_log = <<>>
    /\ page_log = <<>>

Init ==
    /\ glue_catalog \in Catalogs
    /\ run = 1
    /\ Fresh
    /\ output_table = <<>>
    /\ written_before = {}
    /\ peer = NoPeer
    /\ MonitorIdle

\* ------------------------------------------------------------------ handler
\* databases = get_databases()
ListDatabases ==
    /\ pc = "start"
    /\ LET pages == Paginate(CatalogDatabases(glue_catalog))
       IN \E fail_at \in 0..Len(pages) :
            /\ databases' = get_databases(pages, fail_at)
            /\ page_log' = Append(page_log,
                  [call |-> "get_databases", pages |-> Len(pages), fail_at |-> fail_at])
            /\ pc' = IF databases' = <<>> THEN "row_count" ELSE "tables"
    /\ db_idx' = 1
    /\ all_tables' = <<>>
    /\ UNCHANGED <<glue_catalog, run, batch_size, sql_queries, batch_num,
                   query_execution_ids, idx, state, polls, all_results, result,
                   athena_calls, job_log, sink_writes, output_table,
                   written_before, list_log, peer, monitor_vars>>

\* next_db with a listing that raised ending the loop over the databases
next_db_abort(raised, i, n) ==
    IF raised \/ i = n THEN "row_count" ELSE "tables"

\* where the handler goes after get_tables returned for database i of n: the
\* exception, if any, was caught inside get_tables, so to the next database
next_db(raised, i, n) ==
    IF i = n THEN "row_count" ELSE "tables"

\* one round of `for db_name in databases`
ListTables ==
    /\ pc = "tables"
    /\ db_idx <= Len(databases)
    /\ LET db_name == databases[db_idx]
           pages == Paginate(CatalogTables(glue_catalog, db_name))
       IN \E fail_at \in 0..Len(pages) :
            /\ all_tables' = DictSet(all_tables, db_name, get_tables(pages, fail_at))
            /\ list_log' = Append(list_log, fail_at # 0)
            /\ page_log' = Append(page_log,
                  [call |-> "get_tables", pages |-> Len(pages), fail_at |-> fail_at])
            /\ pc' = next_db(fail_at # 0, db_idx, Len(databases))
    /\ db_idx' = db_idx + 1
    /\ UNCHANGED <<glue_catalog, run, databases, batch_size, sql_queries, batch_num,
                   query_execution_ids, idx, state, polls, all_results, result,
                   athena_calls, job_log, sink_writes, output_table,
                   written_before, peer, monitor_vars>>

\* get_row_count up to its loop: render the statements, return [] when there are none
BuildQueries ==
    /\ pc = "row_count"
    /\ sql_queries' = RenderQueries(all_tables)
    /\ query_execution_ids' = <<>>
    /\ batch_num' = 0
    /\ pc' = IF \/ sql_queries' = <<>>
                \/ total_batches(Len(sql_queries'), batch_size) <= 0
             THEN "ids" ELSE "submit"
    /\ UNCHANGED <<glue_catalog, run, databases, db_idx, all_tables, batch_size,
                   idx, state, polls, all_results, result, athena_calls, job_log,
                   sink_writes, output_table,
                   written_before, list_log, peer, page_log, monitor_vars>>

\* one round of `for batch_num in range(total_batches)`: the submission is
\* accepted and its id recorded, or it raises and the batch is skipped
SubmitBatch ==
    /\ pc = "submit"
    /\ batch_num < total_batches(Len(sql_queries), batch_size)
    /\ \E accepted \in BOOLEAN :
        /\ athena_calls' = Append(athena_calls,
              [QueryString |-> batch_queries(sql_queries, batch_num, batch_size),
               batch_num |-> batch_num,
               accepted |-> accepted])
        /\ query_execution_ids' =
              record_id(query_execution_ids, accepted, Len(athena_calls) + 1)
        /\ pc' = after_submit(accepted, batch_num,
                               total_batches(Len(sql_queries), batch_size))
    /\ batch_num' = batch_num + 1
    /\ UNCHANGED <<glue_catalog, run, databases, db_idx, all_tables, batch_size,
                   sql_queries, idx, state, polls, all_results, result, job_log,
                   sink_writes, output_table,
                   written_before, list_log, peer, page_log, monitor_vars>>

\* `if not query_execution_ids`: return 400, or enter the result loop
CheckIds ==
    /\ pc = "ids"
    /\ IF no_ids(query_execution_ids)
       THEN /\ result' = NoTables
            /\ pc' = "done"
            /\ UNCHANGED idx
       ELSE /\ idx' = 1
            /\ pc' = IF Len(query_execution_ids) >= 1 THEN "poll" ELSE "aggregate"
            /\ UNCHANGED result
    /\ all_results' = <<>>
    /\ UNCHANGED <<glue_catalog, run, databases, db_idx, all_tables, batch_size,
                   sql_queries, batch_num, query_execution_ids, state, polls,
                   athena_calls, job_log, sink_writes, output_table,
                   written_before, list_log, peer, page_log, monitor_vars>>

\* FinishJob with a None result sending the handler back to the submission loop
FinishJob_resubmit(csv_df, last_state, raised) ==
    /\ job_log' = Append(job_log,
          [id |-> query_execution_ids[idx], state |-> last_state,
           fetched |-> csv_df.has_df, raised |-> raised, acc |-> Len(all_results)])
    /\ all_results' = IF csv_df.has_df THEN Append(all_results, csv_df.df)
                      ELSE all_results
    /\ UNCHANGED result
    /\ idx' = idx + 1
    /\ pc' = IF ~csv_df.has_df THEN "submit"
             ELSE IF idx = Len(query_execution_ids) THEN "aggregate" ELSE "poll"
    /\ state' = "NONE"
    /\ polls' = 0

\* FinishJob with an exception of get_csv_result reaching the handler's
\* `except Exception` instead of being turned into None
FinishJob_propagate(csv_df, last_state, raised) ==
    /\ job_log' = Append(job_log,
          [id |-> query_execution_ids[idx], state |-> last_state,
           fetched |-> csv_df.has_df /\ ~raised, raised |-> raised,
           acc |-> Len(all_results)])
    /\ all_results' = IF csv_df.has_df /\ ~raised THEN Append(all_results, csv_df.df)
                      ELSE all_results
    /\ result' = IF raised THEN ErrorOccurred ELSE result
    /\ idx' = idx + 1
    /\ pc' = IF raised THEN "done"
             ELSE IF idx = Len(query_execution_ids) THEN "aggregate" ELSE "poll"
    /\ state' = "NONE"
    /\ polls' = 0

\* get_csv_result returns csv_df (a data frame, or None when has_df is FALSE)
\* and the handler's loop body appends it and moves to the next id
FinishJob(csv_df, last_state, raised) ==
    /\ job_log' = Append(job_log,
          [id |-> query_execution_ids[idx], state |-> last_state,
           fetched |-> csv_df.has_df, raised |-> raised, acc |-> Len(all_results)])
    /\ all_results' = IF csv_df.has_df THEN Append(all_results, csv_df.df)
                      ELSE all_results
    /\ UNCHANGED result
    /\ idx' = idx + 1
    /\ pc' = IF idx = Len(query_execution_ids) THEN "aggregate" ELSE "poll"
    /\ state' = "NONE"
    /\ polls' = 0

\* one round of `while True` in get_csv_result, the status request giving obs:
\* it raises and None is returned, or the loop goes on (polls counts these
\* rounds up to MaxPolls), or it breaks, to the read when SUCCEEDED and to
\* `return None` otherwise
PollRound(obs) ==
    /\ pc = "poll"
    /\ idx <= Len(query_execution_ids)
    /\ obs \in Observable(state) \cup {"RAISE"}
    /\ LET query == athena_calls[query_execution_ids[idx]].QueryString
       IN
        IF obs = "RAISE"
        THEN FinishJob(csv_result(state, query, FALSE), "NONE", TRUE)
        ELSE IF ~is_terminal(obs)
        THEN /\ state' = obs
             /\ polls' = Min(polls + 1, MaxPolls)
             /\ UNCHANGED <<pc, idx, all_results, job_log, result>>
        ELSE IF obs = "SUCCEEDED"
        THEN /\ state' = obs
             /\ pc' = "fetch"
             /\ UNCHANGED <<polls, idx, all_results, job_log, result>>
        ELSE FinishJob(csv_result(obs, query, TRUE), obs, FALSE)
    /\ UNCHANGED <<glue_catalog, run, databases, db_idx, all_tables, batch_size,
                   sql_queries, batch_num, query_execution_ids,
                   athena_calls, sink_writes, output_table,
                   written_before, list_log, peer, page_log, monitor_vars>>

Poll == \E obs \in PollOutcomes : PollRound(obs)

\* `if state == 'SUCCEEDED'`: read the result set, or None when the read raises
Fetch ==
    /\ pc = "fetch"
    /\ \E read_ok \in BOOLEAN :
        FinishJob(csv_result(state,
                             athena_calls[query_execution_ids[idx]].QueryString,
                             read_ok),
                  state, ~read_ok)
    /\ UNCHANGED <<glue_catalog, run, databases, db_idx, all_tables, batch_size,
                   sql_queries, batch_num, query_execution_ids,
                   athena_calls, sink_writes, output_table,
                   written_before, list_log, peer, page_log, monitor_vars>>

\* `if all_results`: concat and write, return 200, or 500 when the write raises;
\* else return 500
Aggregate ==
    /\ pc = "aggregate"
    /\ IF has_results(all_results)
       THEN \E outcome \in WriteOutcomes :
            LET combined_df == pd_concat(all_results)
            IN /\ sink_writes' = Append(sink_writes,
                     [df |-> combined_df, raised |-> outcome # "ok"])
               /\ output_table' = to_parquet(output_table, combined_df, outcome)
               /\ result' = write_result(outcome)
       ELSE /\ result' = NoCsv
            /\ UNCHANGED <<sink_writes, output_table>>
    /\ pc' = "done"
    /\ UNCHANGED <<glue_catalog, run, databases, db_idx, all_tables, batch_size,
                   sql_queries, batch_num, query_execution_ids, idx, state, polls,
                   all_results, athena_calls, job_log,
                   written_before, list_log, peer, page_log, monitor_vars>>

Next ==
    \/ ListDatabases
    \/ ListTables
    \/ BuildQueries
    \/ SubmitBatch
    \/ CheckIds
    \/ Poll
    \/ Fetch
    \/ Aggregate

Spec == Init /\ [][Next]_vars

\* ------------------------------------------- the invocation under fairness
\* The steps of the handler other than a status request: the handler is one
\* thread and each of these ends, by returning or by raising
HandlerStep ==
    \/ ListDatabases
    \/ ListTables
    \/ BuildQueries
    \/ SubmitBatch
    \/ CheckIds
    \/ Fetch
    \/ Aggregate

\* a status request that finds the awaited job in a terminal state
PollTerminal == \E obs \in Terminal : PollRound(obs)

\* The handler keeps running, and every submitted job reaches a terminal
\* state: a loop of status requests on one job does not go on for ever
\* without one of them finding a terminal state of the engine
SpecFair ==
    /\ Init
    /\ [][Next]_vars
    /\ WF_vars(HandlerStep)
    /\ WF_vars(PollTerminal)

\* -------------------------------- the invocation with a job that never ends
\* The engine never finishes the query that counts table t01 of database d2:
\* every status request for its job reports RUNNING
NeverEnds(query) == Statement(DbName(2), TableName(1)) \in Range(query)

\* one round of `while True` in get_csv_result with that engine
PollStuck ==
    /\ pc = "poll"
    /\ idx <= Len(query_execution_ids)
    /\ \E obs \in PollOutcomes :
          /\ NeverEnds(athena_calls[query_execution_ids[idx]].QueryString) =>
                obs = "RUNNING"
          /\ PollRound(obs)

NextStuck ==
    \/ HandlerStep
    \/ PollStuck

SpecStuck == Init /\ [][NextStuck]_vars

\* ------------------------------------ enumeration of a catalog of many pages
\* Catalogs whose listing of databases has two pages: PageSize databases and
\* the staging one; the first database has tables, on up to three pages
EnumCatalogs ==
    {[k \in 1..PageSize |-> IF k = 1 THEN c ELSE 0] : c \in TableCounts}

InitEnum ==
    /\ glue_catalog \in EnumCatalogs
    /\ run = 1
    /\ Fresh
    /\ output_table = <<>>
    /\ written_before = {}
    /\ peer = NoPeer
    /\ MonitorIdle

\* the handler up to the test of the ids
NextEnum ==
    \/ ListDatabases
    \/ ListTables
    \/ BuildQueries
    \/ CheckIds

SpecEnum == InitEnum /\ [][NextEnum]_vars

\* ------------------------------------------- get_row_count on its own inputs
BatchInputs ==
    {[k \in 1..n |->
        [db_name |-> DbName(k),
         tables |-> [i \in 1..counts[k] |-> TableName(i)]]] :
     n \in 0..MaxDbs, counts \in [1..MaxDbs -> 0..MaxTablesPerDb]}

InitBatch ==
    /\ glue_catalog = <<>>
    /\ run = 1
    /\ pc = "row_count"
    /\ databases = <<>>
    /\ db_idx = 0
    /\ all_tables \in BatchInputs
    /\ batch_size \in 1..MaxBatch
    /\ sql_queries = <<>>
    /\ batch_num = 0
    /\ query_execution_ids = <<>>
    /\ idx = 0
    /\ state = "NONE"
    /\ polls = 0
    /\ all_results = <<>>
    /\ result = NoResult
    /\ athena_calls = <<>>
    /\ job_log = <<>>
    /\ sink_writes = <<>>
    /\ list_log = <<>>
    /\ page_log = <<>>
    /\ output_table = <<>>
    /\ written_before = {}
    /\ peer = NoPeer
    /\ MonitorIdle

NextBatch ==
    \/ BuildQueries
    \/ SubmitBatch

SpecBatch == InitBatch /\ [][NextBatch]_vars

\* ------------------------------------------------- the scheduler fires again
InitRuns ==
    /\ glue_catalog \in RunCounts
    /\ run = 1
    /\ Fresh
    /\ output_table = <<>>
    /\ written_before = {}
    /\ peer = NoPeer
    /\ MonitorIdle

\* the next invocation starts after the previous one returned
Invoke ==
    /\ pc = "done"
    /\ run < MaxRuns
    /\ run' = run + 1
    /\ pc' = "start"
    /\ databases' = <<>>
    /\ db_idx' = 0
    /\ all_tables' = <<>>
    /\ sql_queries' = <<>>
    /\ batch_num' = 0
    /\ query_execution_ids' = <<>>
    /\ idx' = 0
    /\ state' = "NONE"
    /\ polls' = 0
    /\ all_results' = <<>>
    /\ result' = NoResult
    /\ athena_calls' = <<>>
    /\ job_log' = <<>>
    /\ sink_writes' = <<>>
    /\ written_before' = written_before \cup
          UNION {Range(sink_writes[w].df) : w \in {v \in DOMAIN sink_writes : ~sink_writes[v].raised}}
    /\ list_log' = <<>>
    /\ page_log' = <<>>
    /\ UNCHANGED <<glue_catalog, batch_size, output_table, peer, monitor_vars>>

NextRuns ==
    \/ Next
    \/ Invoke

SpecRuns == InitRuns /\ [][NextRuns]_vars

\* ------------------------------------------- two overlapping invocations
\* The second invocation runs the same handler on the same catalog.  Its
\* only step on state shared with the first is its to_parquet call, so it is
\* kept as that one step.  The frames it can pass: the result sets of a
\* non-empty set of its batches, combined in batch order.
PeerFrames(counts) ==
    LET dbs == get_databases(Paginate(CatalogDatabases(counts)), 0)
        listed == [k \in DOMAIN dbs |->
                     [db_name |-> dbs[k],
                      tables |-> get_tables(Paginate(CatalogTables(counts, dbs[k])), 0)]]
        queries == RenderQueries(listed)
        total == total_batches(Len(queries), HANDLER_BATCH_SIZE)
        frame(b) == read_csv(batch_queries(queries, b - 1, HANDLER_BATCH_SIZE))
    IN {pd_concat([b \in 1..total |-> IF b \in S THEN frame(b) ELSE <<>>]) :
          S \in (SUBSET (1..total)) \ {{}}}

InitOverlap ==
    /\ glue_catalog \in RunCounts
    /\ run = 1
    /\ Fresh
    /\ output_table = <<>>
    /\ written_before = {}
    /\ peer = [pc |-> "running", df |-> <<>>]
    /\ MonitorIdle

\* the second invocation's to_parquet call returns
PeerWrite ==
    /\ peer.pc = "running"
    /\ \E df \in PeerFrames(glue_catalog) :
          /\ peer' = [pc |-> "done", df |-> df]
          /\ output_table' = to_parquet(output_table, df, "ok")
    /\ UNCHANGED <<glue_catalog, run, pc, databases, db_idx, all_tables, batch_size,
                   sql_queries, batch_num, query_execution_ids, idx, state, polls,
                   all_results, result, athena_calls, job_log, sink_writes,
                   written_before, list_log, page_log, monitor_vars>>

\* the second invocation returns without a write (its 400 or 500 result)
PeerReturn ==
    /\ peer.pc = "running"
    /\ peer' = [pc |-> "done", df |-> <<>>]
    /\ UNCHANGED <<glue_catalog, run, pc, databases, db_idx, all_tables, batch_size,
                   sql_queries, batch_num, query_execution_ids, idx, state, polls,
                   all_results, result, athena_calls, job_log, sink_writes,
                   output_table, written_before, list_log, page_log,
                   monitor_vars>>

NextOverlap ==
    \/ Next
    \/ PeerWrite
    \/ PeerReturn

SpecOverlap == InitOverlap /\ [][NextOverlap]_vars

\* ===================================================== query monitoring job
RECURSIVE SumTo(_, _)
\* the number of ids on the first k pages of a listing
SumTo(counts, k) ==
    IF k = 0 THEN 0 ELSE SumTo(counts, k - 1) + counts[k]

\* response['QueryExecutionIds'] of the request for page p: the engine's ids
\* are numbered in listing order
PageIds(counts, p) ==
    [j \in 1..counts[p] |-> SumTo(counts, p - 1) + j]

\* response.get('NextToken') of the request for page p: the next page, or None (0)
NextToken(counts, p) == IF p < Len(counts) THEN p + 1 ELSE 0

\* the test of the listing loop without the limit on the ids
continue_listing_no_limit(token, n) == token # 0

\* `while next_token and len(query_ids) <= 100`
continue_listing(token, n) == token # 0 /\ n <= ID_LIMIT

\* ids[i:i + BATCH_SIZE]
batch_slice(ids, i) == SubSeq(ids, i + 1, Min(i + BATCH_SIZE, Len(ids)))

Workgroups == UNION {[1..n -> PageCounts] : n \in 1..MaxPages}

InitMonitor ==
    /\ glue_catalog = <<>>
    /\ run = 1
    /\ Fresh
    /\ output_table = <<>>
    /\ written_before = {}
    /\ peer = NoPeer
    /\ qm_pc = "start"
    /\ workgroup \in Workgroups
    /\ query_ids = <<>>
    /\ next_token = 0
    /\ range_i = 0
    /\ all_query_details = <<>>
    /\ list_requests = <<>>
    /\ detail_calls = <<>>

\* one list_query_executions request, for the first page or the page the
\* token names: the response extends query_ids, or the request raises, the
\* exception is raised again and the handler's `except` ends the run
ListRequest(page) ==
    /\ list_requests' = Append(list_requests,
          [token |-> next_token, held |-> Len(query_ids)])
    /\ \E ok \in BOOLEAN :
          IF ok
          THEN /\ next_token' = NextToken(workgroup, page)
               /\ query_ids' = query_ids \o PageIds(workgroup, page)
               /\ qm_pc' = "loop"
          ELSE /\ qm_pc' = "failed"
               /\ UNCHANGED <<next_token, query_ids>>
    /\ UNCHANGED <<workgroup, range_i, all_query_details, detail_calls, glue_vars>>

\* get_all_query_ids up to its loop
FirstRequest ==
    /\ qm_pc = "start"
    /\ ListRequest(1)

\* one test of `while next_token and len(query_ids) <= 100`, and the round
LoopRequest ==
    /\ qm_pc = "loop"
    /\ IF continue_listing(next_token, Len(query_ids))
       THEN ListRequest(next_token)
       ELSE /\ qm_pc' = "save"
            /\ UNCHANGED <<workgroup, query_ids, next_token, range_i,
                           all_query_details, list_requests, detail_calls, glue_vars>>

\* the ids are written to query_ids.txt and returned, or the write raises
SaveIds ==
    /\ qm_pc = "save"
    /\ \E ok \in BOOLEAN :
          qm_pc' = IF ok THEN "details" ELSE "failed"
    /\ range_i' = 0
    /\ all_query_details' = <<>>
    /\ UNCHANGED <<workgroup, query_ids, next_token, list_requests, detail_calls,
                   glue_vars>>

\* one round of `for i in range(0, len(ids), BATCH_SIZE)`, or its end: the
\* batch is passed to get_query_details, which returns the details or raises,
\* the exception being raised again and caught by the handler's `except`
GetDetails ==
    /\ qm_pc = "details"
    /\ IF range_i < Len(query_ids)
       THEN LET batch == batch_slice(query_ids, range_i)
            IN /\ detail_calls' = Append(detail_calls, batch)
               /\ \E ok \in BOOLEAN :
                     IF ok
                     THEN /\ all_query_details' = all_query_details \o batch
                          /\ qm_pc' = "details"
                     ELSE /\ qm_pc' = "failed"
                          /\ UNCHANGED all_query_details
               /\ range_i' = range_i + BATCH_SIZE
       ELSE /\ qm_pc' = "done"
            /\ UNCHANGED <<range_i, all_query_details, detail_calls>>
    /\ UNCHANGED <<workgroup, query_ids, next_token, list_requests, glue_vars>>

NextMonitor ==
    \/ FirstRequest
    \/ LoopRequest
    \/ SaveIds
    \/ GetDetails

SpecMonitor == InitMonitor /\ [][NextMonitor]_vars

\* =================================================================== claims
\* ------------------------------------------------ reference notions
RECURSIVE SumLen(_, _)
\* total length of the first k sequences of seqs
SumLen(seqs, k) ==
    IF k = 0 THEN 0 ELSE SumLen(seqs, k - 1) + Len(seqs[k])

\* the tables of the map in database-major order: entry j is the table of the
\* database whose range of positions holds j
FlatRefs(dict) ==
    LET lists == [k \in DOMAIN dict |-> dict[k].tables]
        owner(j) == CHOOSE k \in DOMAIN dict :
                        SumLen(lists, k - 1) < j /\ j <= SumLen(lists, k)
    IN [j \in 1..SumLen(lists, Len(dict)) |->
            [database_name |-> dict[owner(j)].db_name,
             table_name |-> dict[owner(j)].tables[j - SumLen(lists, owner(j) - 1)]]]

\* the least k with k * b >= n
CeilDiv(n, b) ==
    CHOOSE k \in 0..n : k * b >= n /\ \A m \in 0..n : m * b >= n => k <= m

\* the statements of each submission attempt, in the order of the attempts
Built == [k \in DOMAIN athena_calls |-> athena_calls[k].QueryString]

\* ------------------------------------------------------------------- C1
\* C1: for N >= 1 tables and batch size B >= 1, every batch get_row_count
\* builds is a non-empty window of at most B statements, the windows are
\* contiguous in the database-major sequence of tables, and once all batches
\* are built their concatenation is that sequence: each table is in exactly
\* one batch.
C1_BatchesPartition ==
    LET flat == FlatRefs(all_tables)
    IN (pc \in {"submit", "ids"} /\ Len(flat) >= 1) =>
        /\ \A k \in DOMAIN Built :
            /\ Len(Built[k]) >= 1
            /\ Len(Built[k]) <= batch_size
            /\ Built[k] = SubSeq(flat, SumLen(Built, k - 1) + 1, SumLen(Built, k))
        /\ pc = "ids" =>
            /\ Concat(Built) = flat
            /\ \A j \in DOMAIN flat :
                Cardinality({<<k, i>> \in (DOMAIN Built) \X (1..batch_size) :
                                i <= Len(Built[k]) /\ Built[k][i] = flat[j]}) = 1

\* two databases, a batch that spans both, and a last batch that is not full
C1_Witness ==
    /\ pc = "ids"
    /\ Len(all_tables) = 2
    /\ batch_size = 2
    /\ Len(Built) = 3
    /\ Built[2][1].database_name # Built[2][2].database_name
    /\ Len(Built[3]) = 1

\* ------------------------------------------------------------------- C2
\* C2: for B >= 1 and N >= 0 tables, get_row_count makes exactly ceil(N/B)
\* submission attempts, which is what (N + B - 1) // B computes, one for each
\* batch number 0 .. ceil(N/B) - 1.
C2_BatchCount ==
    LET n == Len(FlatRefs(all_tables))
        c == CeilDiv(n, batch_size)
    IN pc = "ids" =>
        /\ Len(athena_calls) = c
        /\ total_batches(n, batch_size) = c
        /\ \A k \in DOMAIN athena_calls : athena_calls[k].batch_num = k - 1

\* five tables in batches of two: three attempts
C2_Witness ==
    /\ pc = "ids"
    /\ Len(FlatRefs(all_tables)) = 5
    /\ batch_size = 2
    /\ Len(athena_calls) = 3

\* ------------------------------------------------------------------- C3
\* C3: whichever submissions raise, every batch is still submitted exactly
\* once, no execution id is recorded for a batch whose submission raised, and
\* get_row_count returns the ids of the accepted submissions in batch order.
C3_FailuresSkipped ==
    LET n == Len(FlatRefs(all_tables))
        accepted == {k \in DOMAIN athena_calls : athena_calls[k].accepted}
    IN pc = "ids" =>
        /\ \A b \in 0..(CeilDiv(n, batch_size) - 1) :
            Cardinality({k \in DOMAIN athena_calls :
                            athena_calls[k].batch_num = b}) = 1
        /\ Range(query_execution_ids) = accepted
        /\ Len(query_execution_ids) = Cardinality(accepted)
        /\ \A i, j \in DOMAIN query_execution_ids :
            i < j => athena_calls[query_execution_ids[i]].batch_num
                        < athena_calls[query_execution_ids[j]].batch_num

\* the first and the third submission raise, the second is accepted
C3_Witness ==
    /\ pc = "ids"
    /\ Len(athena_calls) >= 3
    /\ ~athena_calls[1].accepted
    /\ athena_calls[2].accepted
    /\ ~athena_calls[3].accepted
    /\ Len(query_execution_ids) >= 1

\* ------------------------------------------------ jobs and their batches
\* the statements of the batch that the k-th awaited job ran
JobBatch(k) == athena_calls[job_log[k].id].QueryString

\* the tables that the rows of df count
Keys(df) ==
    {[database_name |-> df[r].database_name, table_name |-> df[r].table_name] :
        r \in DOMAIN df}

\* df has no row for a table of the statements in query
NoRowOf(df, query) == Keys(df) \cap Range(query) = {}

\* the relations the handler combined: what it holds and what it wrote
Combined == {pd_concat(all_results)} \cup {sink_writes[w].df : w \in DOMAIN sink_writes}

\* the awaited jobs, by how they ended
Succeeded == {k \in DOMAIN job_log : job_log[k].state = "SUCCEEDED"}
NotSucceeded == {k \in DOMAIN job_log : job_log[k].state \in {"FAILED", "CANCELLED"}}
Fetched == {k \in DOMAIN job_log : job_log[k].fetched}

\* df holds one row per table of the batches of the jobs in S, and nothing else
ExactlyRowsOf(df, S) ==
    /\ Cardinality(Keys(df)) = Len(df)
    /\ Keys(df) = UNION {Range(JobBatch(k)) : k \in S}
    /\ \A k \in (DOMAIN job_log) \ S : NoRowOf(df, JobBatch(k))

\* three jobs with batches of 20, 20 and 5 tables, of which the second
\* failed and the other two gave their result sets
Scenario20_20_5 ==
    /\ Len(job_log) = 3
    /\ Len(JobBatch(1)) = 20 /\ Len(JobBatch(2)) = 20 /\ Len(JobBatch(3)) = 5
    /\ job_log[2].state = "FAILED"
    /\ Fetched = {1, 3}

\* ------------------------------------------------------------------- C4
\* C4 as stated: no row of the batch of a FAILED or CANCELLED job is in the
\* combined relation, and the handler returns 200 provided another job
\* SUCCEEDED.
C4_Original ==
    \A k \in NotSucceeded :
        /\ \A df \in Combined : NoRowOf(df, JobBatch(k))
        /\ (pc = "done" /\ Succeeded \ {k} # {}) => result.statusCode = 200

\* C4 amended: no row of the batch of a FAILED or CANCELLED job is in the
\* combined relation, and the handler returns 200 provided the result set of
\* another job was read and the write to the sink did not raise.
C4_FailedJobAbsent ==
    \A k \in NotSucceeded :
        /\ \A df \in Combined : NoRowOf(df, JobBatch(k))
        /\ ( /\ pc = "done"
             /\ Fetched \ {k} # {}
             /\ \A w \in DOMAIN sink_writes : ~sink_writes[w].raised )
            => result.statusCode = 200

\* a FAILED job, a CANCELLED job, a job whose result set was read, and 200
C4_Witness ==
    /\ pc = "done"
    /\ \E k \in DOMAIN job_log : job_log[k].state = "FAILED"
    /\ \E k \in DOMAIN job_log : job_log[k].state = "CANCELLED"
    /\ Fetched # {}
    /\ result = Listed

\* ------------------------------------------------------------------- C5
\* C5 as stated: when a job SUCCEEDED there is exactly one write, of one row
\* per table of each batch whose job SUCCEEDED and no other row; batches of
\* 20, 20 and 5 with the second job failed give a write of 30 rows.
C5_Original ==
    (pc = "done" /\ Succeeded # {}) =>
        /\ Len(sink_writes) = 1
        /\ ExactlyRowsOf(sink_writes[1].df, Succeeded)
        /\ Scenario20_20_5 => Len(sink_writes[1].df) = 30

\* C5 amended: when the result set of a job was read there is exactly one
\* to_parquet call, of one row per table of each batch whose result set was
\* read and no other row; batches of 20, 20 and 5 with the second job failed
\* give a write of 25 rows.
C5_OneWriteOfFetched ==
    (pc = "done" /\ Fetched # {}) =>
        /\ Len(sink_writes) = 1
        /\ ExactlyRowsOf(sink_writes[1].df, Fetched)
        /\ Len(sink_writes[1].df) = SumLen([k \in DOMAIN job_log |->
                IF k \in Fetched THEN JobBatch(k) ELSE <<>>], Len(job_log))
        /\ Scenario20_20_5 => Len(sink_writes[1].df) = 25

\* the 20, 20, 5 scenario, written
C5_Witness ==
    /\ pc = "done"
    /\ Scenario20_20_5
    /\ Len(sink_writes) = 1
    /\ ~sink_writes[1].raised
    /\ Len(output_table) = 25

\* ------------------------------------------------------------------- C6
\* C6: the output table is append-only across invocations; stated for the
\* invocations whose own write completed: once such an invocation has
\* returned, every row written by a completed write of an earlier invocation
\* is still in the output table.
C6_AppendOnly ==
    (pc = "done" /\ result = Listed) =>
        written_before \subseteq Range(output_table)

\* ------------------------------------------------------------------- C7
\* C7: once the handler has returned, if a status request or a read of a
\* result set raised after at least one result set had been accumulated, the
\* rows accumulated up to then were handed to the sink, in one write.
C7_SalvageWrite ==
    result # NoResult =>
        \A k \in DOMAIN job_log :
            (job_log[k].raised /\ job_log[k].acc >= 1) =>
                /\ Len(sink_writes) = 1
                /\ LET saved == Concat(SubSeq(all_results, 1, job_log[k].acc))
                   IN /\ Len(saved) <= Len(sink_writes[1].df)
                      /\ SubSeq(sink_writes[1].df, 1, Len(saved)) = saved
                      /\ Len(saved) >= 1

\* a result set was read, then a status request raised, then a read raised
C7_Witness ==
    /\ pc = "done"
    /\ Len(job_log) = 3
    /\ job_log[1].fetched
    /\ job_log[2].raised /\ job_log[2].state # "SUCCEEDED"
    /\ job_log[3].raised /\ job_log[3].state = "SUCCEEDED"
    /\ Len(sink_writes) = 1

\* ------------------------------------------------------------------- C8
RECURSIVE FetchedRows(_)
\* the rows of the result sets read by the first k awaited jobs, in job order
FetchedRows(k) ==
    IF k = 0 THEN <<>>
    ELSE FetchedRows(k - 1)
         \o (IF job_log[k].fetched
             THEN [i \in DOMAIN JobBatch(k) |->
                     [database_name |-> JobBatch(k)[i].database_name,
                      table_name |-> JobBatch(k)[i].table_name,
                      row_count |-> CountRows(JobBatch(k)[i].database_name,
                                              JobBatch(k)[i].table_name)]]
             ELSE <<>>)

\* C8: when the to_parquet call raised, it was the only write attempt of the
\* invocation, it carried the rows of every batch whose result set was read,
\* and the handler returned a status other than 200.
C8_WriteThrows ==
    (pc = "done" /\ \E w \in DOMAIN sink_writes : sink_writes[w].raised) =>
        /\ Len(sink_writes) = 1
        /\ sink_writes[1].df = FetchedRows(Len(job_log))
        /\ result.statusCode = 500

\* two of three result sets were read and the write raised
C8_Witness ==
    /\ pc = "done"
    /\ Len(job_log) = 3
    /\ Cardinality(Fetched) = 2
    /\ Len(sink_writes) = 1
    /\ sink_writes[1].raised
    /\ result = ErrorOccurred

\* ------------------------------------------------------------------- C9
\* C9: every row handed to the sink has a last_updated value, the same for
\* all rows of the invocation.
C9_Stamped ==
    \A w \in DOMAIN sink_writes :
        LET df == sink_writes[w].df
        IN /\ \A i \in DOMAIN df : "last_updated" \in DOMAIN df[i]
           /\ \A i, j \in DOMAIN df : df[i].last_updated = df[j].last_updated

\* ------------------------------------------------------------------ C10
\* C10: when the enumeration has ended with no table, no query is ever
\* submitted, no job polled, nothing written, and the handler returns the
\* 400 "No tables found to query." result.
C10_NoTables ==
    ( /\ pc \notin {"start", "tables"}
      /\ \A k \in DOMAIN all_tables : all_tables[k].tables = <<>> ) =>
        /\ pc \in {"row_count", "ids", "done"}
        /\ athena_calls = <<>>
        /\ query_execution_ids = <<>>
        /\ job_log = <<>>
        /\ state = "NONE"
        /\ polls = 0
        /\ sink_writes = <<>>
        /\ output_table = <<>>
        /\ pc = "done" => result = NoTables

\* two databases were listed, neither has a table
C10_Witness ==
    /\ pc = "done"
    /\ Len(databases) = 2
    /\ Len(all_tables) = 2
    /\ all_tables[1].tables = <<>>
    /\ all_tables[2].tables = <<>>
    /\ result = NoTables

\* ------------------------------------------------------------------ C11
\* every batch of the rendered statements was submitted and every submission raised
AllSubmissionsFailed ==
    /\ pc \notin {"start", "tables", "row_count", "submit"}
    /\ sql_queries # <<>>
    /\ Len(athena_calls) = CeilDiv(Len(sql_queries), batch_size)
    /\ \A c \in DOMAIN athena_calls : ~athena_calls[c].accepted

\* C11: when tables were found and every batch submission failed, the
\* handler polls no job, writes nothing, and returns (it does not raise) a
\* result that is not 200 and carries a message.
C11_NoJobSubmitted ==
    AllSubmissionsFailed =>
        /\ pc \in {"ids", "done"}
        /\ query_execution_ids = <<>>
        /\ job_log = <<>>
        /\ state = "NONE"
        /\ polls = 0
        /\ sink_writes = <<>>
        /\ output_table = <<>>
        /\ pc = "done" =>
              /\ result.statusCode # 200
              /\ result.body # ""
              /\ result # ErrorOccurred
              /\ result = NoTables

\* three batches of 45 tables were submitted, all three submissions raised,
\* and the handler has returned
C11_Witness ==
    /\ pc = "done"
    /\ Len(sql_queries) = 45
    /\ Len(athena_calls) = 3
    /\ \A c \in DOMAIN athena_calls : ~athena_calls[c].accepted
    /\ result = NoTables

\* ------------------------------------------------------------------ C12
\* every id was awaited and get_csv_result returned None for each of them
EveryJobNull ==
    /\ pc \in {"aggregate", "done"}
    /\ query_execution_ids # <<>>
    /\ Len(job_log) = Len(query_execution_ids)
    /\ \A k \in DOMAIN job_log : ~job_log[k].fetched

\* C12: when every awaited job gave a null result, the handler calls
\* to_parquet not at all, leaves the output table as it was, and returns the
\* 500 "Failed to retrieve CSV results" result.
C12_NoResultNoWrite ==
    EveryJobNull =>
        /\ all_results = <<>>
        /\ sink_writes = <<>>
        /\ output_table = <<>>
        /\ pc = "done" => (result.statusCode = 500 /\ result = NoCsv)

\* three jobs were awaited: one ended FAILED, the status request of one
\* raised, one SUCCEEDED but the read of its result set raised
C12_Witness ==
    /\ pc = "done"
    /\ Len(job_log) = 3
    /\ \E a, b, c \in DOMAIN job_log :
          /\ job_log[a].state = "FAILED"
          /\ job_log[b].state = "NONE" /\ job_log[b].raised
          /\ job_log[c].state = "SUCCEEDED" /\ job_log[c].raised
    /\ result = NoCsv

\* ------------------------------------------------------------------ C13
\* C13: when every submitted job eventually reaches a terminal state, the
\* invocation eventually returns a result.
C13_Returns == <>(pc = "done" /\ result # NoResult)

\* the handler waited on a job that was still RUNNING, and later returned
\* after awaiting three jobs
C13_Waits ==
    /\ pc = "poll"
    /\ state = "RUNNING"
    /\ polls = MaxPolls
    /\ idx = 3
    /\ Len(query_execution_ids) = 3

\* ------------------------------------------------------------------ C14
\* The static denylist of the database-level filter.  get_databases has none:
\* its only test is the suffix.  The names on the list are not given; d2
\* stands for a legacy database that is on it and is listed by the catalog.
Denylist == {DbName(2)}

\* C14: get_databases returns no database name that ends in '_staging' and
\* none that is on the denylist.
C14_Excluded ==
    pc # "start" =>
        \A k \in DOMAIN databases :
            /\ ~endswith(databases[k], STAGING_SUFFIX)
            /\ databases[k] \notin Denylist

\* ------------------------------------------------------------------ C15
\* the tables the catalog lists for db_name whose name does not begin with an
\* underscore, in the order of the listing (the names of a listing are distinct)
VisibleTables(db_name) ==
    SelectSeq(CatalogTables(glue_catalog, db_name), LAMBDA t : Head(t) # "_")

\* C15: no table name returned by get_tables begins with an underscore; a
\* listing that did not raise returns every other table of the database once,
\* in catalog order; and no counting statement, rendered or submitted, is
\* for a table whose name begins with an underscore.
C15_TablesFiltered ==
    /\ \A k \in DOMAIN all_tables :
          /\ \A i \in DOMAIN all_tables[k].tables :
                Head(all_tables[k].tables[i]) # "_"
          /\ (k \in DOMAIN list_log /\ ~list_log[k]) =>
                all_tables[k].tables = VisibleTables(all_tables[k].db_name)
    /\ \A q \in DOMAIN sql_queries : Head(sql_queries[q].table_name) # "_"
    /\ \A c \in DOMAIN athena_calls :
          \A q \in DOMAIN athena_calls[c].QueryString :
              Head(athena_calls[c].QueryString[q].table_name) # "_"

\* d1 lists 26 tables on three pages, one of them _tmp; the listing did not
\* raise, 25 names were returned, and 25 statements were submitted for d1
C15_Witness ==
    /\ pc = "ids"
    /\ Len(CatalogTables(glue_catalog, DbName(1))) = 26
    /\ HiddenTable \in Range(CatalogTables(glue_catalog, DbName(1)))
    /\ all_tables # <<>>
    /\ ~list_log[1]
    /\ Len(all_tables[1].tables) = 25
    /\ Cardinality({q \in DOMAIN sql_queries :
                       sql_queries[q].database_name = DbName(1)}) = 25
    /\ Len(athena_calls) >= 2

\* ------------------------------------------------------------------ C16
\* the statements of every start_query_execution call, in the order of the calls
SubmittedStatements ==
    Concat([c \in DOMAIN athena_calls |-> athena_calls[c].QueryString])

\* one statement per visible table of every database whose listing did not
\* raise, in the order of databases
StatementsOfListed ==
    Concat([k \in DOMAIN databases |->
              IF list_log[k] THEN <<>>
              ELSE LET tables == VisibleTables(databases[k])
                   IN [i \in DOMAIN tables |-> Statement(databases[k], tables[i])]])

\* C16: when the listing of a database raised, the loop over the databases
\* still visits every database; the failed one maps to the empty list, every
\* other one to its tables; and once the batches are submitted, they hold a
\* statement for every table of the other databases.  The failure is not
\* what the handler returns.
C16_ListingFailureLocal ==
    ( /\ pc \notin {"start", "tables"}
      /\ \E k \in DOMAIN list_log : list_log[k] ) =>
        /\ Len(list_log) = Len(databases)
        /\ Len(all_tables) = Len(databases)
        /\ \A k \in DOMAIN databases :
              /\ all_tables[k].db_name = databases[k]
              /\ all_tables[k].tables =
                    IF list_log[k] THEN <<>> ELSE VisibleTables(databases[k])
        /\ pc \notin {"row_count", "submit"} => SubmittedStatements = StatementsOfListed
        /\ (pc = "done" /\ result = ErrorOccurred) =>
              (sink_writes # <<>> /\ sink_writes[1].raised)

\* the listing of d1 raised, d2 was listed with its 25 tables, two batches
\* were submitted for d2 and the handler returned 200
C16_Witness ==
    /\ pc = "done"
    /\ list_log = <<TRUE, FALSE>>
    /\ all_tables[1].tables = <<>>
    /\ Len(all_tables[2].tables) = 25
    /\ Len(athena_calls) = 2
    /\ result = Listed

\* ------------------------------------------------------------------ C17
\* C17: when a status request or the read of the result set of job k raised,
\* job k gives no result set, the handler goes on to the next id, every id
\* is awaited in turn, the rows of every later job that SUCCEEDED and whose
\* read did not raise are in the combined relation, and the exception is
\* not what the handler returns.
C17_JobErrorNotFatal ==
    \A k \in DOMAIN job_log :
        job_log[k].raised =>
            /\ ~job_log[k].fetched
            /\ \A j \in DOMAIN job_log : job_log[j].id = query_execution_ids[j]
            /\ IF pc \in {"aggregate", "done"}
               THEN /\ Len(job_log) = Len(query_execution_ids)
                    /\ \A j \in (k + 1)..Len(job_log) :
                          (job_log[j].state = "SUCCEEDED" /\ ~job_log[j].raised) =>
                              /\ job_log[j].fetched
                              /\ \A df \in Combined : Range(JobBatch(j)) \subseteq Keys(df)
               ELSE /\ pc \in {"poll", "fetch"}
                    /\ idx = Len(job_log) + 1
                    /\ idx <= Len(query_execution_ids)
            /\ (pc = "done" /\ result = ErrorOccurred) =>
                  (sink_writes # <<>> /\ sink_writes[1].raised)

\* the status request of the first job raised, the read of the second
\* job's result set raised, the third job SUCCEEDED and its 5 rows were written
C17_Witness ==
    /\ pc = "done"
    /\ Len(job_log) = 3
    /\ job_log[1].raised /\ job_log[1].state = "NONE"
    /\ job_log[2].raised /\ job_log[2].state = "SUCCEEDED"
    /\ job_log[3].fetched
    /\ Len(sink_writes) = 1
    /\ Len(sink_writes[1].df) = 5
    /\ result = Listed

\* ------------------------------------------------------------------ C18
\* C18: after two overlapping invocations have both completed their write,
\* the rows each of them wrote are all in the output table.
C18_NoWriteLost ==
    ( /\ pc = "done"
      /\ result = Listed
      /\ peer.pc = "done"
      /\ peer.df # <<>> ) =>
        Range(sink_writes[1].df) \cup Range(peer.df) \subseteq Range(output_table)

\* ------------------------------------------------------------------ C19
\* the table a row counts
KeyOf(row) == [database_name |-> row.database_name, table_name |-> row.table_name]

\* the order of arrival: the statements, hence the rows of the result set, of
\* the first awaited job's batch in their order, then those of the second, ...
Arrival == Concat([k \in DOMAIN job_log |-> JobBatch(k)])

\* the place of a row in an order of statements
Place(order, row) == CHOOSE i \in DOMAIN order : order[i] = KeyOf(row)

\* C19: in the combined relation the rows of an earlier awaited batch come
\* before the rows of a later one, and the rows of one batch are in the
\* order of its result set (stated on neighbouring rows).
C19_ArrivalOrder ==
    LET order == Arrival
    IN \A df \in Combined :
        \A p \in 1..(Len(df) - 1) : Place(order, df[p]) < Place(order, df[p + 1])

\* the result sets of the first and third of three jobs were read and the
\* 25 rows written: row 20 is the last row of batch 1, row 21 the first of batch 3
C19_Witness ==
    /\ pc = "done"
    /\ Len(job_log) = 3
    /\ Fetched = {1, 3}
    /\ Len(sink_writes) = 1
    /\ Len(sink_writes[1].df) = 25
    /\ Place(Arrival, sink_writes[1].df[20]) = 20
    /\ Place(Arrival, sink_writes[1].df[21]) = 41

\* ------------------------------------------------------------------ C20
\* the ids whose get_csv_result call has returned
Finished == {job_log[k].id : k \in DOMAIN job_log}

\* C20: get_csv_result, per job: while the state it observed is QUEUED or
\* RUNNING it is still in the loop of status requests on that job; it is at
\* the read of the result set exactly when it observed SUCCEEDED; it returns
\* only after a terminal state or an exception; a job that ended FAILED or
\* CANCELLED gave no result set and no read was tried; a result set comes
\* only from a SUCCEEDED job; and a status request is made only for a job
\* not yet seen in a terminal state, each job being awaited once.
C20_PollStateMachine ==
    /\ state \in {"NONE", "QUEUED", "RUNNING", "SUCCEEDED"}
    /\ state \in NonTerminal => (pc = "poll" /\ polls >= 1)
    /\ pc = "poll" => state \notin Terminal
    /\ pc = "fetch" <=> state = "SUCCEEDED"
    /\ pc \in {"poll", "fetch"} =>
          /\ idx \in DOMAIN query_execution_ids
          /\ query_execution_ids[idx] \notin Finished
    /\ Cardinality(Finished) = Len(job_log)
    /\ \A k \in DOMAIN job_log :
          /\ job_log[k].raised \/ job_log[k].state \in Terminal
          /\ job_log[k].state \in {"FAILED", "CANCELLED"} =>
                (~job_log[k].fetched /\ ~job_log[k].raised)
          /\ job_log[k].fetched =>
                (job_log[k].state = "SUCCEEDED" /\ ~job_log[k].raised)
          /\ job_log[k].state = "SUCCEEDED" =>
                (job_log[k].fetched \/ job_log[k].raised)

\* the first job ended CANCELLED and gave nothing; the second was seen
\* RUNNING, then SUCCEEDED, and its result set is about to be read
C20_Witness ==
    /\ pc = "fetch"
    /\ Len(job_log) = 1
    /\ job_log[1].state = "CANCELLED"
    /\ ~job_log[1].fetched
    /\ idx = 2
    /\ polls = MaxPolls
    /\ state = "SUCCEEDED"

\* ------------------------------------------------------------------ C21
\* the places in query_execution_ids of the jobs that never end
StuckJobs ==
    {i \in DOMAIN query_execution_ids :
        NeverEnds(athena_calls[query_execution_ids[i]].QueryString)}

\* C21: when a submitted job stays RUNNING for ever, the handler, once it has
\* its list of ids, never leaves the result loop: it gets no further than
\* that job, finishes no get_csv_result call for it or for a later job,
\* writes nothing and returns nothing.
C21_Blocks ==
    (pc \notin {"start", "tables", "row_count", "submit"} /\ StuckJobs # {}) =>
        \A s \in StuckJobs :
            /\ pc \in {"ids", "poll", "fetch"}
            /\ idx <= s
            /\ Len(job_log) < s
            /\ \A k \in DOMAIN job_log : job_log[k].id # query_execution_ids[s]
            /\ sink_writes = <<>>
            /\ output_table = <<>>
            /\ result = NoResult

\* the result set of the first job was read, the second job is the one that
\* never ends: it was seen RUNNING MaxPolls times and the handler is still
\* in its loop, with a third job waiting
C21_Witness ==
    /\ pc = "poll"
    /\ Len(query_execution_ids) = 3
    /\ StuckJobs = {2}
    /\ idx = 2
    /\ state = "RUNNING"
    /\ polls = MaxPolls
    /\ Len(job_log) = 1
    /\ job_log[1].fetched

Stage(p) ==
    CASE p \in {"start", "tables"} -> 1
      [] p \in {"row_count", "submit"} -> 2
      [] p \in {"ids", "poll", "fetch"} -> 3
      [] p = "aggregate" -> 4
      [] OTHER -> 5

\* C23: no step of an invocation goes back to an earlier stage; a catalog
\* listing call is made when no query has been submitted; a query is
\* submitted when no status request has been made; a status request or a
\* read is made when nothing has been written; and the write is made when
\* every call of the earlier stages has been made.
C23_Downstream ==
    [][ /\ Stage(pc') >= Stage(pc)
        /\ page_log' # page_log =>
              (athena_calls' = <<>> /\ job_log' = <<>> /\ state' = "NONE"
                 /\ sink_writes' = <<>>)
        /\ athena_calls' # athena_calls =>
              (job_log' = <<>> /\ state' = "NONE" /\ polls' = 0 /\ sink_writes' = <<>>)
        /\ (job_log' # job_log \/ state' # state \/ polls' # polls) =>
              (sink_writes = <<>> /\ sink_writes' = <<>>)
        /\ sink_writes' # sink_writes =>
              /\ Len(page_log) = 1 + Len(databases)
              /\ Len(athena_calls) = CeilDiv(Len(sql_queries), batch_size)
              /\ Len(job_log) = Len(query_execution_ids)
      ]_vars

\* listing, submission, status requests, a read and the write were all made
C23_Witness ==
    /\ pc = "done"
    /\ Len(page_log) = 3
    /\ Len(athena_calls) = 3
    /\ Len(job_log) = 3
    /\ \E k \in DOMAIN job_log : job_log[k].fetched
    /\ Len(sink_writes) = 1

\* ------------------------------------------------------------------ C24
\* C24: the ids held by get_row_count and the handler are pairwise distinct;
\* each is the id of a start_query_execution call that returned; no id is
\* held for a call that raised; and the ids of the finished get_csv_result
\* calls are distinct ids of that list.  (The engine gives every call an id
\* of its own: the place of the call in athena_calls.)
C24_DistinctIds ==
    /\ Cardinality(Range(query_execution_ids)) = Len(query_execution_ids)
    /\ \A i \in DOMAIN query_execution_ids :
          /\ query_execution_ids[i] \in DOMAIN athena_calls
          /\ athena_calls[query_execution_ids[i]].accepted
    /\ \A c \in DOMAIN athena_calls :
          athena_calls[c].accepted <=> c \in Range(query_execution_ids)
    /\ Cardinality({job_log[k].id : k \in DOMAIN job_log}) = Len(job_log)
    /\ \A k \in DOMAIN job_log : job_log[k].id \in Range(query_execution_ids)

\* of three submissions the second raised: two ids are held, those of the
\* first and the third call, and both jobs have been awaited
C24_Witness ==
    /\ Len(athena_calls) = 3
    /\ athena_calls[1].accepted
    /\ ~athena_calls[2].accepted
    /\ athena_calls[3].accepted
    /\ query_execution_ids = <<1, 3>>
    /\ Len(job_log) = 2

\* ------------------------------------------------------------------ C25
\* C25: a handler that has ended has returned a record of a statusCode and
\* a body, the statusCode one of 200, 400 and 500 (no exception left it);
\* the statusCode is 200 exactly when to_parquet was called and returned;
\* and nothing is returned before the end.
C25_StructuredResult ==
    IF pc = "done"
    THEN /\ DOMAIN result = {"statusCode", "body"}
         /\ result.statusCode \in {200, 400, 500}
         /\ result \in {NoTables, Listed, NoCsv, ErrorOccurred}
         /\ result.statusCode = 200 <=>
               (Len(sink_writes) = 1 /\ ~sink_writes[1].raised)
    ELSE result = NoResult

\* to_parquet raised after the new files were written: the table holds the
\* rows, the call did not return, and the handler returned 500
C25_Witness ==
    /\ pc = "done"
    /\ result = ErrorOccurred
    /\ Len(sink_writes) = 1
    /\ sink_writes[1].raised
    /\ output_table = sink_writes[1].df
    /\ output_table # <<>>

\* ------------------------------------------------------------------ C26
\* C26: a get_tables run in which the request of any page raised, the first
\* or a later one, gave the empty list for its database, and a run in which
\* none raised gave all the visible tables; a get_databases run in which
\* the request of any page raised gave the empty list, after which no table
\* is listed, no query submitted, and the handler returns the 400 result.
C26_AllOrNothing ==
    /\ \A k \in DOMAIN all_tables :
          /\ page_log[k + 1].call = "get_tables"
          /\ all_tables[k].tables =
                IF page_log[k + 1].fail_at # 0 THEN <<>>
                ELSE VisibleTables(all_tables[k].db_name)
    /\ (page_log # <<>> /\ page_log[1].fail_at # 0) =>
          /\ page_log[1].call = "get_databases"
          /\ databases = <<>>
          /\ all_tables = <<>>
          /\ Len(page_log) = 1
          /\ sql_queries = <<>>
          /\ athena_calls = <<>>
          /\ pc \in {"row_count", "ids", "done"}
          /\ pc = "done" => result = NoTables

\* the listing of the databases has two pages, the request of the second
\* raised after the first was read, and the handler returned the 400 result
C26_Witness ==
    /\ pc = "done"
    /\ Len(page_log) = 1
    /\ page_log[1].pages = 2
    /\ page_log[1].fail_at = 2
    /\ databases = <<>>
    /\ result = NoTables

\* ------------------------------------------------------------------ C27
\* get_all_query_ids has returned and the handler has its ids
IdsReturned == qm_pc \in {"details", "done"} \/ detail_calls # <<>>

\* The listing stops at the first test that finds no token or more than
\* ID_LIMIT ids: the first request is made with no token and no id; every
\* later one is made for the page its token names, holding the ids of the
\* pages before it, at most ID_LIMIT of them; there are no more requests
\* than pages; and once the loop has ended there is no token or there are
\* more than ID_LIMIT ids, the ids being those of the requested pages.
ListingStops ==
    /\ Len(list_requests) <= Len(workgroup)
    /\ \A r \in DOMAIN list_requests :
          /\ list_requests[r].token = (IF r = 1 THEN 0 ELSE r)
          /\ list_requests[r].held = SumTo(workgroup, r - 1)
          /\ list_requests[r].held <= ID_LIMIT
    /\ (qm_pc = "save" \/ IdsReturned) =>
          /\ next_token = 0 \/ Len(query_ids) > ID_LIMIT
          /\ query_ids = [j \in 1..SumTo(workgroup, Len(list_requests)) |-> j]

\* the c-th batch passed to get_query_details is the c-th run of
\* BATCH_SIZE ids of query_ids (the last run may be shorter)
ChunksInOrder ==
    \A c \in DOMAIN detail_calls :
        /\ (c - 1) * BATCH_SIZE < Len(query_ids)
        /\ detail_calls[c] =
              [j \in 1..Min(BATCH_SIZE, Len(query_ids) - (c - 1) * BATCH_SIZE) |->
                  query_ids[(c - 1) * BATCH_SIZE + j]]

====
